---- MODULE Spec2Model ----
(***************************************************************************)
(* Model of the Crunchyroll content-script plugin                          *)
(* (src/plugins/crunchyroll/plugin.ts, class CrunchyrollPlugin, lines      *)
(* 43-591): video-source lookup, bounded discovery, progress tracking and  *)
(* teardown, together with the host, the page and the timers that drive it.*)
(*                                                                         *)
(* Media times are integers in tenths of a second (599.8 s = 5998).        *)
(* Wall-clock ages and timer delays are in milliseconds.                   *)
(* A nullable field is the empty sequence (null) or a one-element sequence.*)
(***************************************************************************)
EXTENDS Integers, Sequences, FiniteSets, TLC

-----------------------------------------------------------------------------
(* Bounds of the exploration *)

MaxPageMatchTimers == 2
MaxRetryTimers == 2
MaxReportTimers == 1
MaxListeners == 2
MaxInjected == 2
MaxExploredAttempts == 2
MaxEvents == 3
MaxFrames == 2
MaxRequestIntervals == 2
TimeStep == 5000
StalenessWindow == 5000

-----------------------------------------------------------------------------
(* Program constants *)

maxInitializeAttempts == 60
ShortRetryDelay == 1000
LongRetryDelay == 2000
ShortRetryAttempts == 10
DebounceWindow == 5000
FinishedPercent == 90
FullPercent == 100
RequestPeriod == 1000
RequestWindow == 60000

-----------------------------------------------------------------------------
(* JavaScript values *)

\* NaN of a JavaScript number; no other number of the model is -1
NaN == -1

IsNaN(x) == x = NaN

\* the value of a field an object does not carry; each test and each
\* arithmetic operation of the plugin treats it as it treats NaN
\* (undefined > 0 and undefined >= 90 are false, !undefined is true,
\* undefined / x is NaN), so the model holds it as NaN
Undefined == NaN

\* x > y of JavaScript numbers: false when either side is NaN
JsGt(x, y) == ~IsNaN(x) /\ ~IsNaN(y) /\ x > y

\* truthiness of a JavaScript number: 0 and NaN are falsy
JsTruthy(x) == ~IsNaN(x) /\ x # 0

Null == <<>>

Some(x) == <<x>>

Min(a, b) == IF a <= b THEN a ELSE b

\* String.prototype.includes on a URL, the URL being its sequence of parts
Includes(url, part) == \E i \in 1..Len(url) : url[i] = part

\* Number(string): "" is 0, a decimal numeral is its value, anything else NaN
NumberOf(s) ==
  CASE s = "" -> 0
    [] s = "3" -> 3
    [] s = "12" -> 12
    [] OTHER -> NaN

IsDigits(s) == s \in {"3", "12"}

-----------------------------------------------------------------------------
(* The page: location and the DOM nodes extractEpisodeInfo reads *)

\* a watch page whose DOM carries the episode number element
EpisodePage ==
  [href |-> <<"crunchyroll.com", "watch", "G4VUQ">>,
   h1 |-> <<"Episode", "12", "Departure">>,
   seriesText |-> "Frieren",
   episodeNumText |-> "12"]

\* a watch page without series and episode number elements
BarePage ==
  [href |-> <<"crunchyroll.com", "watch", "GR3VW">>,
   h1 |-> <<"Homecoming">>,
   seriesText |-> "",
   episodeNumText |-> ""]

\* a page of the site that is not a watch page
BrowsePage ==
  [href |-> <<"crunchyroll.com", "series">>,
   h1 |-> <<"Browse">>,
   seriesText |-> "",
   episodeNumText |-> ""]

Pages == {EpisodePage, BarePage, BrowsePage}

\* the video elements the main document can hold
Video(ct, dur, src) ==
  [currentTime |-> ct, duration |-> dur, src |-> src, paused |-> FALSE,
   ended |-> FALSE]

\* a video whose playback has reached the end of the media
EndedVideo(ct, dur) ==
  [currentTime |-> ct, duration |-> dur, src |-> TRUE, paused |-> TRUE,
   ended |-> TRUE]

Videos ==
  {Video(0, NaN, FALSE), Video(0, NaN, TRUE), Video(0, 6000, TRUE),
   EndedVideo(5998, 6000), Video(10800, 12000, TRUE),
   Video(0, 0, TRUE), Video(3000, -6000, TRUE)}

\* an embedded frame: cross-origin, or same-origin with a video
CrossOriginFrame == [origin |-> "cross", video |-> Null]

SameOriginFrame(v) == [origin |-> "same", video |-> Some(v)]

FrameKinds ==
  {CrossOriginFrame,
   SameOriginFrame(Video(3000, 6000, TRUE)),
   SameOriginFrame(Video(0, NaN, TRUE))}

\* the iframe elements of the document: none, or the player frame alone
Frames == {<<>>} \cup {<<f>> : f \in FrameKinds}

\* every list of up to MaxFrames iframe elements
FrameLists == UNION {[1..n -> FrameKinds] : n \in 0..MaxFrames}

\* cross-document messages the window can receive; source is the window
\* that posted it: the embedded player frame or any other window
Report(flag, ct, dur) ==
  [envelope |-> TRUE,
   data |-> [iFrameVideo |-> flag, currTime |-> ct, dur |-> dur,
             paused |-> FALSE],
   source |-> "player"]

\* a message of the report shape posted by a window that is not the player
ForeignReport(ct, dur) == [Report(TRUE, ct, dur) EXCEPT !.source = "other"]

OtherMessage ==
  [envelope |-> FALSE,
   data |-> [iFrameVideo |-> FALSE, currTime |-> 0, dur |-> 0,
             paused |-> FALSE],
   source |-> "other"]

\* how a call on a collaborator (storage.set, runtime.sendMessage) ends:
\* it succeeds, it returns a promise that rejects, or it throws
Outcomes == {"ok", "rejects", "throws"}

\* collaborators whose calls all succeed
Reliable == {"ok"}

\* messages of the extension's runtime: episode metadata pushed by another
\* part of the extension, or any other message
EpisodeDataMessage ==
  [type |-> "crunchyroll_episode_data",
   data |-> [title |-> <<"Episode", "3", "Arrival">>, episodeNumber |-> "3",
             series |-> "Bocchi", duration |-> 0, currentTime |-> 0]]

RuntimeMessages ==
  {EpisodeDataMessage, [EpisodeDataMessage EXCEPT !.type = "ping"]}

Messages ==
  {Report(TRUE, 3000, 6000), Report(TRUE, 7000, 6000),
   Report(TRUE, 3000, 0), Report(FALSE, 3000, 6000), OtherMessage,
   Report(TRUE, Undefined, 6000), Report(TRUE, 3000, Undefined),
   ForeignReport(3000, 6000)}

-----------------------------------------------------------------------------
(* State *)

VARIABLES
  api,                \* this.api is set (onLoad has run)
  inFrame,            \* window.self !== window.top
  progressInterval,   \* this.progressInterval holds a handle
  activePolls,        \* number of live intervals made by startProgressTracking
  iframeInterval,     \* this.iframeInterval holds a live handle
  updateAge,          \* Date.now() - this.lastProgressUpdate, capped at AgeCap
  acceptedAge,        \* time since updateProgress last called trackProgress
  episodeData,        \* this.episodeData
  iFrameVideoData,    \* this.iFrameVideoData
  initializeAttempts, \* this.initializeAttempts
  retryWaited,        \* retry delays waited in the discovery run under way
  pageMatchTimers,    \* pending 2 s timeouts of onPageMatch, per url
  retryTimers,        \* pending discovery-retry timeouts, per delay
  reportTimers,       \* pending 100 ms timeouts of the message listener
  listeners,          \* timeupdate/ended listener pairs on the video element
  page,               \* the document the window shows
  video,              \* the video element of the main document
  frames,             \* the iframe elements of the document, in order
  injected,           \* detection scripts running inside the frames (capped)
  requestIntervals,   \* ages of the live intervals of discovery requests
  cacheInfo,          \* history of iFrameVideoData: age, writer, page match
  session,            \* history of the host's calls: unloaded, abandoned
  events,             \* host calls and page events so far
  out                 \* what the step just taken computed and emitted

vars ==
  <<api, inFrame, progressInterval, activePolls, iframeInterval, updateAge,
    acceptedAge, episodeData, iFrameVideoData, initializeAttempts, retryWaited,
    pageMatchTimers, retryTimers, reportTimers, listeners, page, video,
    frames, injected, requestIntervals, cacheInfo, session, events, out>>

AgeCap == 2 * TimeStep

RetryDelays == {ShortRetryDelay, LongRetryDelay}

Hrefs == {p.href : p \in Pages}

\* out of a step that called neither trackProgress nor a collaborator
NoCacheInfo == [age |-> 0, writer |-> "none", old |-> FALSE]

\* before the first page match
NoSession == [active |-> FALSE, unloaded |-> FALSE, abandoned |-> FALSE]

\* right after a page match
NewSession == [active |-> TRUE, unloaded |-> FALSE, abandoned |-> FALSE]

\* out of a step that called neither trackProgress nor a collaborator;
\* session and cacheInfo are those the step started from, threw tells that
\* trackProgress threw to its caller, unhandled holds the promises that
\* rejected with no handler, probeThrew tells that findVideoElement threw,
\* fired is the delay of the retry timeout that ran the step and scheduled
\* the delay of the retry timeout the step set (0 when there is none),
\* waited the retry delays between the first tick of the run and the step
NoOut ==
  [by |-> "none", discovery |-> "none", handle |-> Null, percent |-> Null,
   status |-> Null, stored |-> <<>>, sent |-> <<>>, posted |-> <<>>,
   threw |-> FALSE, unhandled |-> <<>>, probeThrew |-> FALSE,
   session |-> NoSession, cacheInfo |-> NoCacheInfo, fired |-> 0,
   scheduled |-> 0, waited |-> 0]

-----------------------------------------------------------------------------
(* Pure functions of the plugin *)

\* the test on the site alone, without the test on the watch path
isCrunchyrollPage(url) == Includes(url, "crunchyroll.com")

\* url.includes('crunchyroll.com') && url.includes('watch')
isCrunchyrollWatchPage(url) ==
  Includes(url, "crunchyroll.com") /\ Includes(url, "watch")

\* the cache test without its tests on the duration
CacheHeld(c) ==
  /\ c # Null
  /\ c[1].iFrameVideo

\* the cache test of findVideoElement
CacheUsable(c) ==
  /\ c # Null
  /\ c[1].iFrameVideo
  /\ ~IsNaN(c[1].dur)
  /\ c[1].dur > 0

\* video && (video.duration > 0 || video.src || video.currentSrc)
Qualifies(v) ==
  /\ v # Null
  /\ (JsGt(v[1].duration, 0) \/ v[1].src)

RemoteHandle(c) ==
  [currentTime |-> c[1].currTime, duration |-> c[1].dur,
   paused |-> c[1].paused, origin |-> "remote"]

LocalHandle(v) ==
  [currentTime |-> v[1].currentTime, duration |-> v[1].duration,
   paused |-> v[1].paused, origin |-> "local"]

\* the lookup without its first step: the document only, never the cache
findVideoElementInDocument(c, v) ==
  IF Qualifies(v) THEN Some(LocalHandle(v)) ELSE Null

\* the value findVideoElement returns: the cache first, then the document
findVideoElement(c, v) ==
  IF CacheUsable(c) THEN Some(RemoteHandle(c))
  ELSE IF Qualifies(v) THEN Some(LocalHandle(v))
  ELSE Null

\* searchIframesForVideo: the snapshot it writes into the cache
FrameSnapshot(f) ==
  [iFrameVideo |-> TRUE, currTime |-> f.video[1].currentTime,
   dur |-> f.video[1].duration, paused |-> f.video[1].paused]

FrameHit(f) == f.origin = "same" /\ Qualifies(f.video)

\* reading the document of a cross-origin frame raises a SecurityError
AccessDenied(f) == f.origin = "cross"

RECURSIVE searchFrom(_, _)

\* the loop body without its try/catch: the denial leaves the loop
denialPropagates(fs, i) == [found |-> 0, threw |-> TRUE]

\* catch { console.log(...) } of the loop body: on to the next frame
denialCaught(fs, i) == searchFrom(fs, i + 1)

\* the loop of searchIframesForVideo from frame i on: the index of the first
\* frame whose video qualifies (0 when there is none), and whether it threw
searchFrom(fs, i) ==
  IF i > Len(fs) THEN [found |-> 0, threw |-> FALSE]
  ELSE IF AccessDenied(fs[i]) THEN denialCaught(fs, i)
  ELSE IF FrameHit(fs[i]) THEN [found |-> i, threw |-> FALSE]
  ELSE searchFrom(fs, i + 1)

searchIframesForVideo(fs) == searchFrom(fs, 1)

\* findVideoElement threw: only its search of the frames can
ProbeThrew(c, v, fs) ==
  findVideoElement(c, v) = Null /\ searchIframesForVideo(fs).threw

\* the cache after one call of findVideoElement
CacheAfterFind(c, v, fs) ==
  IF findVideoElement(c, v) # Null THEN c
  ELSE IF searchIframesForVideo(fs).found > 0
  THEN Some(FrameSnapshot(fs[searchIframesForVideo(fs).found]))
  ELSE c

CacheInfoAfterFind(c, v, fs, info) ==
  IF findVideoElement(c, v) = Null /\ searchIframesForVideo(fs).found > 0
  THEN [age |-> 0, writer |-> "frame", old |-> FALSE]
  ELSE info

\* the frames whose document the plugin can write to
Reachable(fs) == {i \in 1..Len(fs) : ~AccessDenied(fs[i])}

\* scripts running in the frames after one call of findVideoElement:
\* searchIframesForVideo injects one on a hit, and
\* setupCrossOriginIframeDetection one more into each frame it can reach;
\* injectVideoDetectionScript catches the denial of the others
InjectedAfterFind(c, v, fs, n) ==
  IF findVideoElement(c, v) # Null \/ searchIframesForVideo(fs).threw THEN n
  ELSE Min(n + (IF searchIframesForVideo(fs).found > 0 THEN 1 ELSE 0)
             + Cardinality(Reachable(fs)),
           MaxInjected)

\* injectVideoDetectionScript throws to its caller: never, its own try/catch
\* holds whatever the write into the frame's document raises
injectVideoDetectionScriptThrows(f) == FALSE

\* setupPostMessageCommunication: one more interval of discovery requests
StartRequests(rs) == Append(rs, 0)

\* injectVideoDetectionIntoIframe: the injection, and in its catch block
\* setupPostMessageCommunication
injectVideoDetectionIntoIframe(f, rs) ==
  IF injectVideoDetectionScriptThrows(f) THEN StartRequests(rs) ELSE rs

RECURSIVE detectFrom(_, _, _)

\* the loop of setupCrossOriginIframeDetection from frame i on; the src of
\* every frame of the model names the player
detectFrom(fs, i, rs) ==
  IF i > Len(fs) THEN rs
  ELSE detectFrom(fs, i + 1, injectVideoDetectionIntoIframe(fs[i], rs))

\* the intervals of discovery requests after one call of findVideoElement
RequestsAfterFind(c, v, fs, rs) ==
  IF findVideoElement(c, v) # Null \/ searchIframesForVideo(fs).threw THEN rs
  ELSE detectFrom(fs, 1, rs)

\* the message an interval of setupPostMessageCommunication posts
DiscoveryRequest ==
  [type |-> "REQUEST_VIDEO_DATA", source |-> "crunchyroll-plugin"]

\* the intervals never cleared
NeverCleared(age) == FALSE

\* setTimeout(() => clearInterval(requestInterval), 60000) has fired
Cleared(age) == age >= RequestWindow

\* the intervals of discovery requests after ms more milliseconds
AgeRequests(rs, ms) ==
  SelectSeq([i \in 1..Len(rs) |-> rs[i] + ms], LAMBDA a : ~Cleared(a))

extractEpisodeFromTitle(h1) ==
  IF \E i \in 1..(Len(h1) - 1) :
       h1[i] \in {"Episode", "Ep", "E"} /\ IsDigits(h1[i + 1])
  THEN LET i == CHOOSE j \in 1..(Len(h1) - 1) :
                  /\ h1[j] \in {"Episode", "Ep", "E"} /\ IsDigits(h1[j + 1])
                  /\ \A k \in 1..(j - 1) :
                       ~(h1[k] \in {"Episode", "Ep", "E"}
                         /\ IsDigits(h1[k + 1]))
       IN h1[i + 1]
  ELSE ""

extractEpisodeFromUrl(url) ==
  IF \E i \in 1..(Len(url) - 1) : url[i] = "watch"
  THEN url[(CHOOSE i \in 1..(Len(url) - 1) : url[i] = "watch") + 1]
  ELSE ""

OrElse(a, b) == IF a # "" THEN a ELSE b

\* x || 0 of a JavaScript number
OrZero(x) == IF JsTruthy(x) THEN x ELSE 0

extractEpisodeInfo(p, h) ==
  [title |-> p.h1,
   episodeNumber |->
     OrElse(p.episodeNumText,
            OrElse(extractEpisodeFromTitle(p.h1),
                   extractEpisodeFromUrl(p.href))),
   series |-> OrElse(p.seriesText, "Unknown Series"),
   duration |-> IF h = Null THEN 0 ELSE OrZero(h[1].duration),
   currentTime |-> IF h = Null THEN 0 ELSE OrZero(h[1].currentTime)]

\* a percentage as the exact fraction n / d with d > 0, or NaN
Fraction(n, d) == [nan |-> FALSE, n |-> n, d |-> d]

NaNFraction == [nan |-> TRUE, n |-> 0, d |-> 1]

\* (currentTime / duration) * 100, for a duration that is not 0
RawPercent(ct, dur) ==
  IF IsNaN(ct) \/ IsNaN(dur) THEN NaNFraction
  ELSE IF dur > 0 THEN Fraction(ct * 100, dur)
  ELSE Fraction(-(ct * 100), -dur)

\* the percentage left uncapped
UncappedPercent(r) == r

\* Math.min(r, 100)
CapPercent(r) ==
  IF r.nan THEN r
  ELSE IF r.n > FullPercent * r.d THEN Fraction(FullPercent, 1)
  ELSE r

ProgressPercent(ct, dur) == CapPercent(RawPercent(ct, dur))

\* the threshold test made strict
StrictlyFinished(r) == ~r.nan /\ r.n > FinishedPercent * r.d

\* progress >= 90
IsFinished(r) == ~r.nan /\ r.n >= FinishedPercent * r.d

\* the progress field of the Status that trackProgress builds
StatusProgress(info, percent) == NumberOf(info.episodeNumber)

\* the Status with the times extractEpisodeInfo read by its own lookup
BuildStatusFromInfo(info, h, percent) ==
  [title |-> info.title,
   progress |-> StatusProgress(info, percent),
   finished |-> IsFinished(percent),
   currentTime |-> info.currentTime,
   duration |-> info.duration]

\* the Status of trackProgress: both times are those read from the handle
BuildStatus(info, h, percent) ==
  [title |-> info.title,
   progress |-> StatusProgress(info, percent),
   finished |-> IsFinished(percent),
   currentTime |-> h.currentTime,
   duration |-> h.duration]

\* saveProgress: the storage.set calls it makes (none or one) and how
\* each ends
saveProgress(a, ed, p, st, result) ==
  IF ~a \/ ed = Null THEN <<>>
  ELSE <<[key |-> <<"crunchyroll_progress", ed[1].series, st.progress>>,
          title |-> st.title, series |-> ed[1].series,
          progress |-> st.progress, currentTime |-> st.currentTime,
          duration |-> st.duration, finished |-> st.finished,
          url |-> p.href, result |-> result]>>

\* the calls of a sequence that failed, as rejections of their callee
Rejections(calls, callee) ==
  [i \in 1..Len(SelectSeq(calls, LAMBDA c : c.result # "ok")) |-> callee]

\* saveProgress without the try/catch around storage.set
saveProgressUnguarded(calls) == Rejections(calls, "storage.set")

\* saveProgress: the rejections of the promise it returns; the try/catch
\* around await storage.set catches a throw and a rejection alike
saveProgressRejections(calls) == <<>>

\* sendStatusUpdate: the runtime.sendMessage calls it makes (none or one)
\* and how each ends; the message holds the Status as it is when the call
\* is made
sendStatusUpdate(a, p, st, result) ==
  IF ~a THEN <<>>
  ELSE <<[type |-> "status_update", status |-> st, url |-> p.href,
          result |-> result]>>

\* sendStatusUpdate: nothing is wrapped around runtime.sendMessage, a throw
\* of the call leaves sendStatusUpdate and then trackProgress
sendStatusUpdateThrows(calls) ==
  \E i \in 1..Len(calls) : calls[i].result = "throws"

\* sendStatusUpdate: the promise runtime.sendMessage returns is dropped
sendStatusUpdateRejections(calls) ==
  Rejections(SelectSeq(calls, LAMBDA c : c.result # "throws"),
             "runtime.sendMessage")

\* trackProgress without its test on the duration
DurationAssumed(d) == FALSE

\* !duration || duration === 0 of trackProgress
NoDuration(d) == ~JsTruthy(d)

\* trackProgress(url): the handle it resolved, the percentage it computed,
\* the Status it returns and the calls it made on the collaborators, which
\* end as env tells
trackProgress(url, who, env) ==
  LET h == findVideoElement(iFrameVideoData, video)
      base == [NoOut EXCEPT !.by = who, !.session = session,
                            !.cacheInfo = cacheInfo]
  IN IF ~isCrunchyrollWatchPage(url) THEN base
     ELSE IF h = Null
     THEN [base EXCEPT !.probeThrew =
                         ProbeThrew(iFrameVideoData, video, frames)]
     ELSE IF NoDuration(h[1].duration) THEN [base EXCEPT !.handle = h]
     ELSE LET percent == ProgressPercent(h[1].currentTime, h[1].duration)
              info == extractEpisodeInfo(page, h)
              st == BuildStatus(info, h[1], percent)
              stored == saveProgress(api, episodeData, page, st, env.set)
              sent == sendStatusUpdate(api, page, st, env.send)
              threw == sendStatusUpdateThrows(sent)
          IN [base EXCEPT !.handle = h, !.percent = Some(percent),
                          !.status = IF threw THEN Null ELSE Some(st),
                          !.stored = stored,
                          !.sent = sent,
                          !.threw = threw,
                          !.unhandled =
                            saveProgressRejections(stored)
                              \o sendStatusUpdateRejections(sent)]

\* the outcomes, taken from O, that the calls of trackProgress(url) can
\* have: a call that is not made has none
TickEnvs(url, O) ==
  LET r == trackProgress(url, "host", [set |-> "ok", send |-> "ok"])
  IN IF r.sent = <<>> THEN [set : {"ok"}, send : {"ok"}]
     ELSE IF r.stored = <<>> THEN [set : {"ok"}, send : O]
     ELSE [set : O, send : O]

\* what a call of trackProgress(url) leaves in the plugin and in the frame:
\* only its first findVideoElement can write, the later ones find the same
TrackEffects(url) ==
  IF isCrunchyrollWatchPage(url)
  THEN /\ iFrameVideoData' = CacheAfterFind(iFrameVideoData, video, frames)
       /\ cacheInfo' =
            CacheInfoAfterFind(iFrameVideoData, video, frames, cacheInfo)
       /\ injected' =
            InjectedAfterFind(iFrameVideoData, video, frames, injected)
       /\ requestIntervals' =
            RequestsAfterFind(iFrameVideoData, video, frames,
                              requestIntervals)
  ELSE UNCHANGED <<iFrameVideoData, cacheInfo, injected, requestIntervals>>

-----------------------------------------------------------------------------
(* Initial state: the plugin as its constructor leaves it, on a watch page *)

Init ==
  /\ api = FALSE
  /\ inFrame \in BOOLEAN
  /\ progressInterval = FALSE
  /\ activePolls = 0
  /\ iframeInterval = FALSE
  /\ updateAge = AgeCap
  /\ acceptedAge = AgeCap
  /\ episodeData = Null
  /\ iFrameVideoData = Null
  /\ initializeAttempts = 0
  /\ retryWaited = 0
  /\ pageMatchTimers = [u \in Hrefs |-> 0]
  /\ retryTimers = [d \in RetryDelays |-> 0]
  /\ reportTimers = 0
  /\ listeners = 0
  /\ page = EpisodePage
  /\ video = Null
  /\ frames = <<>>
  /\ injected = 0
  /\ requestIntervals = <<>>
  /\ cacheInfo = NoCacheInfo
  /\ session = NoSession
  /\ events = 0
  /\ out = NoOut

Count(timers) ==
  LET RECURSIVE Sum(_)
      Sum(S) == IF S = {} THEN 0
                ELSE LET x == CHOOSE y \in S : TRUE
                     IN timers[x] + Sum(S \ {x})
  IN Sum(DOMAIN timers)

\* a host call or a page event: one more of the events explored
Event == events < MaxEvents /\ events' = events + 1

-----------------------------------------------------------------------------
(* Host calls *)

\* setupIframeVideoDetection: start the in-frame reporter
setupIframeVideoDetection == iframeInterval' = TRUE

onLoad ==
  /\ ~api
  /\ api' = TRUE
  /\ IF inFrame THEN setupIframeVideoDetection ELSE UNCHANGED iframeInterval
  /\ out' = NoOut
  /\ UNCHANGED <<inFrame, progressInterval, activePolls, updateAge,
                 acceptedAge, episodeData, iFrameVideoData,
                 initializeAttempts, retryWaited, pageMatchTimers,
                 retryTimers, reportTimers, listeners, page, video, frames,
                 injected, requestIntervals, cacheInfo, session>>
  /\ UNCHANGED events

\* cleanup without its last two assignments: the metadata and the cached
\* report stay
cleanupKeepsData ==
  /\ progressInterval' = FALSE
  /\ activePolls' = IF progressInterval THEN activePolls - 1 ELSE activePolls
  /\ iframeInterval' = FALSE
  /\ UNCHANGED <<episodeData, iFrameVideoData, pageMatchTimers, retryTimers,
                 reportTimers, listeners, initializeAttempts, retryWaited,
                 updateAge, acceptedAge>>

\* cleanup: what it cancels and what it forgets; the progress bar of the
\* host it hides is no state of the plugin
cleanup ==
  /\ progressInterval' = FALSE
  /\ activePolls' = IF progressInterval THEN activePolls - 1 ELSE activePolls
  /\ iframeInterval' = FALSE
  /\ episodeData' = Null
  /\ iFrameVideoData' = Null
  /\ UNCHANGED <<pageMatchTimers, retryTimers, reportTimers, listeners,
                 initializeAttempts, retryWaited, updateAge, acceptedAge>>

\* onUnload(): cleanup and nothing else
teardown ==
  /\ api
  /\ cleanup
  /\ cacheInfo' = NoCacheInfo
  /\ session' = [session EXCEPT !.active = FALSE, !.unloaded = TRUE]
  /\ out' = [NoOut EXCEPT !.by = "onUnload", !.session = session]
  /\ UNCHANGED <<api, inFrame, page, video, frames, injected,
                 requestIntervals>>

onUnload == teardown /\ Event

\* the host calls onUnload again right after onUnload has returned
onUnloadAgain ==
  /\ out.by = "onUnload"
  /\ teardown
  /\ UNCHANGED events

\* onPageMatch(url): nothing but a 2 s timeout
onPageMatch ==
  /\ api
  /\ Count(pageMatchTimers) < MaxPageMatchTimers
  /\ pageMatchTimers' = [pageMatchTimers EXCEPT ![page.href] = @ + 1]
  /\ session' = NewSession
  /\ cacheInfo' = [cacheInfo EXCEPT !.old = iFrameVideoData # Null]
  /\ out' = NoOut
  /\ UNCHANGED <<api, inFrame, progressInterval, activePolls, iframeInterval,
                 updateAge, acceptedAge, episodeData, iFrameVideoData,
                 initializeAttempts, retryWaited, retryTimers, reportTimers,
                 listeners, page, video, frames, injected, requestIntervals>>
  /\ Event

\* the host asks for the progress of a url; the calls on the collaborators
\* end with an outcome of O
hostTrackProgressUnder(O) ==
  /\ api
  /\ \E url \in Hrefs :
       /\ \E env \in TickEnvs(url, O) :
            out' = trackProgress(url, "host", env)
       /\ TrackEffects(url)
  /\ UNCHANGED <<api, inFrame, progressInterval, activePolls, iframeInterval,
                 updateAge, acceptedAge, episodeData, initializeAttempts,
                 retryWaited, pageMatchTimers, retryTimers, reportTimers,
                 listeners, page, video, frames, session>>
  /\ UNCHANGED events

hostTrackProgress == hostTrackProgressUnder(Reliable)

-----------------------------------------------------------------------------
(* Discovery *)

\* the delay of the next retry after the n-th failed attempt
RetryDelay(n) ==
  IF n < ShortRetryAttempts THEN ShortRetryDelay ELSE LongRetryDelay

\* setupVideoListeners: a real element gets one more timeupdate/ended pair,
\* the handle synthesized from the cache has a dummy addEventListener
setupVideoListeners(h) ==
  listeners' = IF h[1].origin = "local"
               THEN Min(listeners + 1, MaxListeners)
               ELSE listeners

\* startProgressTracking without its clearInterval: the old interval stays
startProgressTrackingKeepsOld ==
  /\ activePolls' = activePolls + 1
  /\ progressInterval' = TRUE

\* startProgressTracking: clear the interval the field holds, start a new one
startProgressTracking ==
  /\ activePolls' =
       (IF progressInterval THEN activePolls - 1 ELSE activePolls) + 1
  /\ progressInterval' = TRUE

\* the else-if without its bound: a failed tick always sets a retry
RetryAlways(n) == TRUE

\* the else-if test of initializeEpisodeTracking: retry while below the bound
MayRetry(n) == n < maxInitializeAttempts

\* initializeEpisodeTracking(url), run by a timeout; timers are the retry
\* timeouts still pending when it starts, fired the delay of the retry
\* timeout that runs it (0 when another timeout does)
initializeEpisodeTracking(timers, who, fired) ==
  LET n == initializeAttempts + 1
      waited == IF initializeAttempts = 0 THEN 0 ELSE retryWaited + fired
      h == findVideoElement(iFrameVideoData, video)
      started == [NoOut EXCEPT !.by = who, !.session = session,
                               !.cacheInfo = cacheInfo, !.fired = fired,
                               !.waited = waited]
  IN /\ IF h # Null
        THEN /\ episodeData' = Some(extractEpisodeInfo(page, h))
             /\ setupVideoListeners(h)
             /\ startProgressTracking
             /\ initializeAttempts' = 0
             /\ retryTimers' = timers
             /\ session' = session
             /\ out' = [started EXCEPT !.discovery = "found", !.handle = h]
             /\ UNCHANGED <<iFrameVideoData, cacheInfo, injected,
                            requestIntervals>>
        ELSE /\ iFrameVideoData' =
                  CacheAfterFind(iFrameVideoData, video, frames)
             /\ cacheInfo' =
                  CacheInfoAfterFind(iFrameVideoData, video, frames, cacheInfo)
             /\ injected' =
                  InjectedAfterFind(iFrameVideoData, video, frames, injected)
             /\ requestIntervals' =
                  RequestsAfterFind(iFrameVideoData, video, frames,
                                    requestIntervals)
             /\ UNCHANGED <<episodeData, listeners, progressInterval,
                            activePolls>>
             /\ IF ProbeThrew(iFrameVideoData, video, frames)
                THEN /\ retryTimers' = timers
                     /\ initializeAttempts' = n
                     /\ session' = session
                     /\ out' = [started EXCEPT !.probeThrew = TRUE]
                ELSE IF MayRetry(n)
                THEN /\ Count(timers) < MaxRetryTimers
                     /\ retryTimers' = [timers EXCEPT ![RetryDelay(n)] = @ + 1]
                     /\ initializeAttempts' = n
                     /\ session' = session
                     /\ out' = [started EXCEPT !.discovery = "retry",
                                               !.scheduled = RetryDelay(n)]
                ELSE /\ retryTimers' = timers
                     /\ initializeAttempts' = 0
                     /\ session' = [session EXCEPT !.abandoned = TRUE]
                     /\ out' = [started EXCEPT !.discovery = "abandon"]
     /\ retryWaited' = IF initializeAttempts' = 0 THEN 0 ELSE waited

\* the 2 s timeout of onPageMatch fires
pageMatchTimeout ==
  /\ \E url \in Hrefs :
       /\ pageMatchTimers[url] > 0
       /\ pageMatchTimers' = [pageMatchTimers EXCEPT ![url] = @ - 1]
       /\ IF isCrunchyrollWatchPage(url)
          THEN initializeEpisodeTracking(retryTimers, "pageMatch", 0)
          ELSE /\ out' = [NoOut EXCEPT !.by = "pageMatchSkipped"]
               /\ UNCHANGED <<episodeData, listeners, progressInterval,
                              activePolls, initializeAttempts, retryWaited,
                              retryTimers, iFrameVideoData, cacheInfo,
                              injected, requestIntervals, session>>
  /\ UNCHANGED <<api, inFrame, iframeInterval, updateAge, acceptedAge,
                 reportTimers, page, video, frames>>
  /\ UNCHANGED events

\* a retry timeout of initializeEpisodeTracking fires
retryTimeout ==
  /\ \E d \in RetryDelays :
       /\ retryTimers[d] > 0
       /\ initializeEpisodeTracking([retryTimers EXCEPT ![d] = @ - 1],
                                    "retry", d)
  /\ UNCHANGED <<api, inFrame, iframeInterval, updateAge, acceptedAge,
                 pageMatchTimers, reportTimers, page, video, frames>>
  /\ UNCHANGED events

\* the 100 ms timeout of the message listener fires
reportTimeout ==
  /\ reportTimers > 0
  /\ reportTimers' = reportTimers - 1
  /\ IF episodeData = Null
     THEN initializeEpisodeTracking(retryTimers, "report", 0)
     ELSE /\ out' = NoOut
          /\ UNCHANGED <<episodeData, listeners, progressInterval,
                         activePolls, initializeAttempts, retryWaited,
                         retryTimers, iFrameVideoData, cacheInfo, injected,
                         requestIntervals, session>>
  /\ UNCHANGED <<api, inFrame, iframeInterval, updateAge, acceptedAge,
                 pageMatchTimers, page, video, frames>>
  /\ UNCHANGED events

-----------------------------------------------------------------------------
(* Cross-frame reports *)

\* the test of the message listener on event.data
AcceptsReport(m) ==
  /\ m.envelope
  /\ m.data.iFrameVideo
  /\ JsGt(m.data.dur, 0)

\* the listener without its test on the counter: every report retries
AlwaysInitializing(n) == TRUE

\* this.initializeAttempts > 0 of the message listener
StillInitializing(n) == n > 0

\* the window 'message' listener registered by onLoad, run on message m;
\* it reads event.origin only to log it
messageListener(m) ==
  /\ api
  /\ IF AcceptsReport(m)
     THEN /\ iFrameVideoData' = Some(m.data)
          /\ cacheInfo' = [age |-> 0, writer |-> "message", old |-> FALSE]
          /\ IF StillInitializing(initializeAttempts)
             THEN /\ reportTimers < MaxReportTimers
                  /\ reportTimers' = reportTimers + 1
             ELSE UNCHANGED reportTimers
     ELSE UNCHANGED <<iFrameVideoData, cacheInfo, reportTimers>>
  /\ out' = NoOut
  /\ UNCHANGED <<api, inFrame, progressInterval, activePolls, iframeInterval,
                 updateAge, acceptedAge, episodeData, initializeAttempts,
                 retryWaited, pageMatchTimers, retryTimers, listeners, page,
                 video, frames, injected, requestIntervals, session>>
  /\ Event

\* a window posts a message to the page
onMessage == \E m \in Messages : messageListener(m)

\* handleEpisodeData(data): the field takes whatever the message carries
handleEpisodeData(data) == episodeData' = Some(data)

\* the runtime.onMessage listener registered by onLoad, run on message m
runtimeMessageListener(m) ==
  /\ api
  /\ IF m.type = "crunchyroll_episode_data"
     THEN handleEpisodeData(m.data)
     ELSE UNCHANGED episodeData
  /\ out' = [NoOut EXCEPT !.by = "runtimeMessage"]
  /\ UNCHANGED <<api, inFrame, progressInterval, activePolls, iframeInterval,
                 updateAge, acceptedAge, iFrameVideoData, initializeAttempts,
                 retryWaited, pageMatchTimers, retryTimers, reportTimers,
                 listeners, page, video, frames, injected, requestIntervals,
                 cacheInfo, session>>
  /\ Event

\* another part of the extension sends a runtime message
onRuntimeMessage == \E m \in RuntimeMessages : runtimeMessageListener(m)

\* the test of the reporter on the video alone
HasVideo(v) == v # Null

\* video && !Number.isNaN(video.duration) && video.duration > 0
HasKnownDuration(v) ==
  v # Null /\ ~IsNaN(v[1].duration) /\ v[1].duration > 0

\* the 100 ms interval of setupIframeVideoDetection fires
reporterTick ==
  /\ iframeInterval
  /\ IF HasKnownDuration(video)
     THEN LET data == [iFrameVideo |-> TRUE,
                       currTime |-> video[1].currentTime,
                       dur |-> video[1].duration,
                       paused |-> video[1].paused]
          IN /\ iFrameVideoData' = Some(data)
             /\ cacheInfo' = [age |-> 0, writer |-> "reporter", old |-> FALSE]
             /\ out' = [NoOut EXCEPT !.by = "reporter",
                                     !.posted = <<[iFrameVideoData |-> data]>>,
                                     !.session = session]
     ELSE /\ out' = NoOut
          /\ UNCHANGED <<iFrameVideoData, cacheInfo>>
  /\ UNCHANGED <<api, inFrame, progressInterval, activePolls, iframeInterval,
                 updateAge, acceptedAge, episodeData, initializeAttempts,
                 retryWaited, pageMatchTimers, retryTimers, reportTimers,
                 listeners, page, video, frames, injected, requestIntervals,
                 session>>
  /\ UNCHANGED events

-----------------------------------------------------------------------------
(* Progress tracking *)

\* the 10 s interval of startProgressTracking fires
pollTickUnder(O) ==
  /\ activePolls > 0
  /\ \E env \in TickEnvs(page.href, O) :
       out' = trackProgress(page.href, "poll", env)
  /\ TrackEffects(page.href)
  /\ UNCHANGED <<api, inFrame, progressInterval, activePolls, iframeInterval,
                 updateAge, acceptedAge, episodeData, initializeAttempts,
                 retryWaited, pageMatchTimers, retryTimers, reportTimers,
                 listeners, page, video, frames, session>>
  /\ UNCHANGED events

pollTick == pollTickUnder(Reliable)

\* the test of updateProgress: now - this.lastProgressUpdate > 5000
DebounceOpen == updateAge > DebounceWindow

\* a 'timeupdate' event of the video element reaches updateProgress; when
\* trackProgress throws, the assignment to lastProgressUpdate is not reached
onTimeUpdateUnder(O) ==
  /\ video # Null
  /\ listeners > 0
  /\ IF DebounceOpen
     THEN /\ \E env \in TickEnvs(page.href, O) :
               out' = trackProgress(page.href, "timeupdate", env)
          /\ TrackEffects(page.href)
          /\ updateAge' = IF out'.threw THEN updateAge ELSE 0
          /\ acceptedAge' = 0
     ELSE /\ out' = NoOut
          /\ UNCHANGED <<iFrameVideoData, cacheInfo, injected,
                         requestIntervals, updateAge, acceptedAge>>
  /\ UNCHANGED <<api, inFrame, progressInterval, activePolls, iframeInterval,
                 episodeData, initializeAttempts, retryWaited,
                 pageMatchTimers, retryTimers, reportTimers, listeners, page,
                 video, frames, session>>
  /\ UNCHANGED events

onTimeUpdate == onTimeUpdateUnder(Reliable)

\* the Status object after the 'ended' listener has written to it
ForceFinished(st) == [st EXCEPT !.finished = TRUE, !.progress = FullPercent]

\* an 'ended' event of the video element reaches the listener; every
\* attached listener does the same, the step is one of them.  The listener
\* writes to the Status only after trackProgress has persisted and broadcast
\* it, and then calls saveProgress, not sendStatusUpdate, a second time
onEndedUnder(O) ==
  /\ video # Null
  /\ video[1].ended
  /\ listeners > 0
  /\ \E env \in TickEnvs(page.href, O) :
       LET r == trackProgress(page.href, "ended", env)
       IN IF r.status = Null THEN out' = r
          ELSE \E again \in IF r.stored = <<>> THEN {"ok"} ELSE O :
                 LET second == saveProgress(api, episodeData, page,
                                            ForceFinished(r.status[1]), again)
                 IN out' = [r EXCEPT !.stored = @ \o second,
                                     !.unhandled =
                                       @ \o saveProgressRejections(second)]
  /\ TrackEffects(page.href)
  /\ UNCHANGED <<api, inFrame, progressInterval, activePolls, iframeInterval,
                 updateAge, acceptedAge, episodeData, initializeAttempts,
                 retryWaited, pageMatchTimers, retryTimers, reportTimers,
                 listeners, page, video, frames, session>>
  /\ UNCHANGED events

onEnded == onEndedUnder(Reliable)

\* the same calls and events with collaborators whose calls can fail
hostTrackProgressFailing == hostTrackProgressUnder(Outcomes)

pollTickFailing == pollTickUnder(Outcomes)

onTimeUpdateFailing == onTimeUpdateUnder(Outcomes)

onEndedFailing == onEndedUnder(Outcomes)

-----------------------------------------------------------------------------
(* The page and the clock *)

\* the video element appears, changes its playback state, or is removed
videoChanges ==
  /\ \E v \in {Null} \cup {Some(x) : x \in Videos} :
       /\ v # video
       /\ video' = v
       /\ listeners' = IF v = Null THEN 0 ELSE listeners
  /\ out' = NoOut
  /\ UNCHANGED <<api, inFrame, progressInterval, activePolls, iframeInterval,
                 updateAge, acceptedAge, episodeData, iFrameVideoData,
                 initializeAttempts, retryWaited, pageMatchTimers, retryTimers,
                 reportTimers, page, frames, injected, requestIntervals,
                 cacheInfo, session>>
  /\ Event

\* the origins of a list of frames
Origins(fs) == [i \in 1..Len(fs) |-> fs[i].origin]

\* frames are added, replaced or removed, the new list being one of F; a
\* frame that stays keeps the scripts that run in it
frameChangesAmong(F) ==
  /\ \E fs \in F :
       /\ fs # frames
       /\ frames' = fs
       /\ injected' = IF Len(fs) > 0 /\ Origins(fs) = Origins(frames)
                      THEN injected ELSE 0
  /\ out' = NoOut
  /\ UNCHANGED <<api, inFrame, progressInterval, activePolls, iframeInterval,
                 updateAge, acceptedAge, episodeData, iFrameVideoData,
                 initializeAttempts, retryWaited, pageMatchTimers, retryTimers,
                 reportTimers, listeners, page, video, requestIntervals,
                 cacheInfo, session>>
  /\ Event

\* the player frame is added, replaced or removed
frameChanges == frameChangesAmong(Frames)

\* any list of frames replaces the frames of the document
frameListChanges == frameChangesAmong(FrameLists)

\* the window navigates to another page of the site
navigate ==
  /\ \E p \in Pages :
       /\ p # page
       /\ page' = p
  /\ out' = NoOut
  /\ UNCHANGED <<api, inFrame, progressInterval, activePolls, iframeInterval,
                 updateAge, acceptedAge, episodeData, iFrameVideoData,
                 initializeAttempts, retryWaited, pageMatchTimers, retryTimers,
                 reportTimers, listeners, video, frames, injected,
                 requestIntervals, cacheInfo, session>>
  /\ Event

\* TimeStep milliseconds pass
advance ==
  /\ updateAge' = Min(updateAge + TimeStep, AgeCap)
  /\ acceptedAge' = Min(acceptedAge + TimeStep, AgeCap)
  /\ requestIntervals' = AgeRequests(requestIntervals, TimeStep)
  /\ cacheInfo' = IF iFrameVideoData = Null THEN cacheInfo
                  ELSE [cacheInfo EXCEPT !.age = Min(@ + TimeStep, AgeCap)]
  /\ out' = NoOut
  /\ UNCHANGED <<api, inFrame, progressInterval, activePolls, iframeInterval,
                 episodeData, iFrameVideoData, initializeAttempts, retryWaited,
                 pageMatchTimers, retryTimers, reportTimers, listeners, page,
                 video, frames, injected, session>>
  /\ Event

-----------------------------------------------------------------------------
(* The requests of setupPostMessageCommunication *)

\* setupPostMessageCommunication(iframe), called on its own: an interval
\* that posts a discovery request every RequestPeriod ms, and a timeout
\* that clears it
setupPostMessageCommunication ==
  /\ api
  /\ Len(requestIntervals) < MaxRequestIntervals
  /\ requestIntervals' = StartRequests(requestIntervals)
  /\ out' = [NoOut EXCEPT !.by = "setupPostMessageCommunication"]
  /\ UNCHANGED <<api, inFrame, progressInterval, activePolls, iframeInterval,
                 updateAge, acceptedAge, episodeData, iFrameVideoData,
                 initializeAttempts, retryWaited, pageMatchTimers, retryTimers,
                 reportTimers, listeners, page, video, frames, injected,
                 cacheInfo, session>>
  /\ UNCHANGED events

\* RequestPeriod milliseconds pass: every live interval posts its request,
\* then the timeouts that are due clear theirs
requestPeriodPasses ==
  /\ requestIntervals # <<>>
  /\ requestIntervals' = AgeRequests(requestIntervals, RequestPeriod)
  /\ updateAge' = Min(updateAge + RequestPeriod, AgeCap)
  /\ acceptedAge' = Min(acceptedAge + RequestPeriod, AgeCap)
  /\ cacheInfo' = IF iFrameVideoData = Null THEN cacheInfo
                  ELSE [cacheInfo EXCEPT !.age = Min(@ + RequestPeriod, AgeCap)]
  /\ out' = [NoOut EXCEPT
               !.by = "requestInterval",
               !.posted = [i \in 1..Len(requestIntervals) |->
                             DiscoveryRequest]]
  /\ UNCHANGED <<api, inFrame, progressInterval, activePolls, iframeInterval,
                 episodeData, iFrameVideoData, initializeAttempts, retryWaited,
                 pageMatchTimers, retryTimers, reportTimers, listeners, page,
                 video, frames, injected, session>>
  /\ UNCHANGED events

-----------------------------------------------------------------------------
(* The plugin in its page *)

\* the timeouts of discovery, explored up to MaxExploredAttempts attempts
Explored == initializeAttempts' <= MaxExploredAttempts

pageMatchTimeoutExplored == pageMatchTimeout /\ Explored

retryTimeoutExplored == retryTimeout /\ Explored

reportTimeoutExplored == reportTimeout /\ Explored

Next ==
  \/ onLoad
  \/ onUnload
  \/ onUnloadAgain
  \/ onPageMatch
  \/ hostTrackProgress
  \/ pageMatchTimeoutExplored
  \/ retryTimeoutExplored
  \/ reportTimeoutExplored
  \/ onMessage
  \/ onRuntimeMessage
  \/ reporterTick
  \/ pollTick
  \/ onTimeUpdate
  \/ onEnded
  \/ videoChanges
  \/ frameChanges
  \/ navigate
  \/ advance

Spec == Init /\ [][Next]_vars

\* discovery alone, every attempt up to maxInitializeAttempts explored
NextDiscovery ==
  \/ onLoad
  \/ onUnload
  \/ onPageMatch
  \/ pageMatchTimeout
  \/ retryTimeout
  \/ reportTimeout
  \/ onMessage
  \/ videoChanges

SpecDiscovery == Init /\ [][NextDiscovery]_vars

\* discovery with timers that fire: a timeout that is pending runs
SpecDiscoveryFair ==
  /\ Init
  /\ [][NextDiscovery]_vars
  /\ WF_vars(pageMatchTimeout)
  /\ WF_vars(retryTimeout)
  /\ WF_vars(reportTimeout)

\* tracking with a storage and a runtime whose calls can fail
NextFailing ==
  \/ onLoad
  \/ onUnload
  \/ onPageMatch
  \/ pageMatchTimeoutExplored
  \/ hostTrackProgressFailing
  \/ pollTickFailing
  \/ onTimeUpdateFailing
  \/ onEndedFailing
  \/ videoChanges
  \/ advance

SpecFailing == Init /\ [][NextFailing]_vars

\* discovery and host calls over every list of frames
NextProbe ==
  \/ onLoad
  \/ onPageMatch
  \/ pageMatchTimeoutExplored
  \/ retryTimeoutExplored
  \/ hostTrackProgress
  \/ frameListChanges

SpecProbe == Init /\ [][NextProbe]_vars

\* setupPostMessageCommunication applied on its own, and the clock
NextRequests ==
  \/ onLoad
  \/ onUnload
  \/ setupPostMessageCommunication
  \/ requestPeriodPasses

SpecRequests == Init /\ [][NextRequests]_vars

-----------------------------------------------------------------------------
(* Claims *)

TickKinds == {"host", "poll", "timeupdate", "ended"}

CallbackKinds == {"poll", "timeupdate", "ended", "pageMatch", "retry", "report"}

Served == out.by \in TickKinds /\ out.handle # Null

FromCache == Served /\ out.handle[1].origin = "remote"

\* C1: a handle built from a report cached by the message listener is never
\* served once more than the staleness window has passed since its receipt
C1_FreshReportOnly ==
  (FromCache /\ out.cacheInfo.writer = "message")
    => out.cacheInfo.age <= StalenessWindow

\* C2: when the main document holds a video that carries real data and a
\* valid report is cached, the lookup serves the local element
C2_LocalWins ==
  (Served /\ Qualifies(video) /\ CacheUsable(iFrameVideoData))
    => /\ out.handle[1].origin = "local"
       /\ out.handle[1].currentTime = video[1].currentTime
       /\ out.handle[1].duration = video[1].duration

\* C3: once discovery has been abandoned after maxInitializeAttempts failed
\* attempts, no discovery attempt is pending or runs until the next page match
C3_AbandonIsTerminal ==
  /\ session.abandoned => Count(retryTimers) = 0
  /\ out.discovery # "none" => ~out.session.abandoned

\* C4: right after onUnload returns no timer created by the plugin is active
C4_UnloadCancelsTimers ==
  out.by = "onUnload"
    => /\ activePolls = 0
       /\ ~iframeInterval
       /\ Count(pageMatchTimers) = 0
       /\ Count(retryTimers) = 0
       /\ reportTimers = 0

\* C5: between onUnload and the next onPageMatch no callback of the plugin
\* calls storage.set or runtime.sendMessage or starts progress tracking
C5_NothingAfterUnload ==
  (out.by \in CallbackKinds /\ out.session.unloaded)
    => /\ out.stored = <<>>
       /\ out.sent = <<>>
       /\ out.discovery # "found"

\* C6: at most one discovery retry chain is pending and at most one set of
\* tracking timers and listeners is live
C6_OneSession ==
  /\ Count(retryTimers) + reportTimers <= 1
  /\ activePolls <= 1
  /\ listeners <= 1

\* C7: no Status computed after an onPageMatch is derived from a report that
\* was received before that page match
C7_NoReuseAcrossPageMatch ==
  (FromCache /\ out.status # Null) => ~out.cacheInfo.old

\* C8: the record persisted and the status broadcast for an 'ended' signal
\* have finished = true and progress = 100
C8_EndedIsAuthoritative ==
  (out.by = "ended" /\ out.status # Null)
    => /\ Len(out.stored) > 0
       /\ Len(out.sent) > 0
       /\ \A i \in 1..Len(out.stored) :
            out.stored[i].finished /\ out.stored[i].progress = FullPercent
       /\ \A i \in 1..Len(out.sent) :
            /\ out.sent[i].status.finished
            /\ out.sent[i].status.progress = FullPercent

\* C9: on a tick that is not an end-of-media signal the progress field of the
\* Status is the computed percentage
C9_ProgressIsPercent ==
  (out.by \in TickKinds \ {"ended"} /\ out.status # Null)
    => /\ out.status[1].progress # NaN
       /\ out.status[1].progress * out.percent[1].d = out.percent[1].n

\* C10: for duration > 0 and currentTime >= 0 the computed percentage is
\* min(currentTime / duration * 100, 100) and lies in 0..100
C10_PercentIsCappedRatio ==
  (out.percent # Null /\ out.handle[1].duration > 0
     /\ out.handle[1].currentTime >= 0)
    => LET ct == out.handle[1].currentTime
           dur == out.handle[1].duration
           r == out.percent[1]
       IN /\ ~r.nan
          /\ r.d > 0
          /\ 0 <= r.n
          /\ r.n <= 100 * r.d
          /\ IF ct <= dur THEN r.n = ct * 100 /\ r.d = dur
                          ELSE r.n = 100 * r.d

\* a percentage was computed for a currentTime beyond the duration
C10_Witness ==
  /\ out.percent # Null
  /\ out.handle[1].duration > 0
  /\ out.handle[1].currentTime > out.handle[1].duration

\* C11: on a tick that is not an end-of-media signal and that yields a
\* Status, finished is true exactly when the computed percentage is >= 90
C11_FinishedIffNinety ==
  (out.by \in TickKinds \ {"ended"} /\ out.status # Null)
    => LET r == out.percent[1]
       IN out.status[1].finished <=> (~r.nan /\ r.n >= 90 * r.d)

\* a tick that is not 'ended' yielded a Status at exactly 90 percent
C11_Witness ==
  /\ out.by \in TickKinds \ {"ended"}
  /\ out.status # Null
  /\ out.handle[1].currentTime = 10800
  /\ out.handle[1].duration = 12000
  /\ out.status[1].finished

C13_StatusReachesBoth ==
  (out.by \in TickKinds /\ out.status # Null)
    => /\ \E i \in 1..Len(out.stored) :
            /\ out.stored[i].title = out.status[1].title
            /\ out.stored[i].currentTime = out.status[1].currentTime
            /\ out.stored[i].duration = out.status[1].duration
       /\ \E i \in 1..Len(out.sent) : out.sent[i].status = out.status[1]

\* a message that carries the envelope, a duration and a current time
Recognized(m) ==
  /\ m.envelope
  /\ m.data.dur # Undefined
  /\ m.data.currTime # Undefined

\* C14: a message that is not a recognized report (no envelope, no dur or
\* no currTime) leaves the cached report, the attempts counter, the session
\* state and every timer as they were
C14_MalformedIgnored ==
  [][\A m \in Messages :
       (messageListener(m) /\ ~Recognized(m))
         => UNCHANGED <<iFrameVideoData, initializeAttempts, episodeData,
                        session, pageMatchTimers, retryTimers, reportTimers,
                        progressInterval, activePolls, iframeInterval>>]_vars

\* C15: a message of the report shape that was posted by a window other
\* than the player frame, or that arrives while no session is active,
\* leaves the cached report as it was and schedules no discovery attempt
C15_ForeignReportIgnored ==
  [][\A m \in Messages :
       (messageListener(m) /\ (m.source # "player" \/ ~session.active))
         => UNCHANGED <<iFrameVideoData, reportTimers>>]_vars

\* a handle that a tick or a discovery attempt got from findVideoElement
Resolved == out.handle # Null

\* C16: every handle served with duration > 0, local or built from a
\* report, has 0 <= currentTime <= duration, and so has every Status
C16_TimeWithinDuration ==
  /\ (Resolved /\ out.handle[1].duration > 0)
       => /\ 0 <= out.handle[1].currentTime
          /\ out.handle[1].currentTime <= out.handle[1].duration
  /\ (out.status # Null /\ out.status[1].duration > 0)
       => /\ 0 <= out.status[1].currentTime
          /\ out.status[1].currentTime <= out.status[1].duration

\* C17: every handle that findVideoElement builds from the cache has a
\* duration that is not NaN and is greater than 0
C17_CacheServedWithDuration ==
  (Resolved /\ out.handle[1].origin = "remote")
    => /\ ~IsNaN(out.handle[1].duration)
       /\ out.handle[1].duration > 0

\* a handle was built from a cache that a frame snapshot had written
C17_Witness ==
  /\ Resolved
  /\ out.handle[1].origin = "remote"
  /\ out.cacheInfo.writer = "frame"

\* a call of storage.set made by the step just taken failed
SetFailed(o) == \E i \in 1..Len(o.stored) : o.stored[i].result # "ok"

\* a call of runtime.sendMessage made by the step just taken failed
SendFailed(o) == \E i \in 1..Len(o.sent) : o.sent[i].result # "ok"

\* C18: a failure of storage.set is caught inside saveProgress: no rejection
\* of storage.set is left unhandled, the tick still broadcasts its Status
\* and returns it, and the poll, the listeners and the episode metadata
\* that drive the later ticks are left as they were
C18_PersistenceFailureSwallowed ==
  [][(out'.by \in TickKinds /\ SetFailed(out'))
       => /\ \A i \in 1..Len(out'.unhandled) :
               out'.unhandled[i] # "storage.set"
          /\ Len(out'.sent) > 0
          /\ ~SendFailed(out')
               => /\ ~out'.threw
                  /\ out'.status # Null
                  /\ out'.sent[1].status = out'.status[1]
          /\ UNCHANGED <<api, episodeData, progressInterval, activePolls,
                         listeners>>]_vars

\* a tick whose storage.set rejected returned and broadcast its Status
C18_Witness ==
  /\ out.by \in TickKinds
  /\ SetFailed(out)
  /\ out.status # Null
  /\ Len(out.sent) > 0

\* C19: a failure of runtime.sendMessage (a throw or a rejected promise) is
\* caught by the plugin: trackProgress does not throw to its caller, no
\* rejection is left unhandled, and the Status is returned
C19_BroadcastFailureSwallowed ==
  (out.by \in TickKinds /\ SendFailed(out))
    => /\ ~out.threw
       /\ out.unhandled = <<>>
       /\ out.status # Null

DiscoveryKinds == {"pageMatch", "retry", "report"}

\* the frame whose video searchIframesForVideo has to find: the first
\* accessible frame with a qualifying video, 0 when there is none
FirstHit(fs) ==
  IF \E i \in 1..Len(fs) : FrameHit(fs[i])
  THEN CHOOSE i \in 1..Len(fs) :
         FrameHit(fs[i]) /\ \A j \in 1..(i - 1) : ~FrameHit(fs[j])
  ELSE 0

\* C20: with a cross-origin frame in the document findVideoElement never
\* throws, a discovery tick whose lookup fails still schedules its retry or
\* abandons, and the frames after the denied one are still examined: the
\* first accessible frame with a video is snapshot into the cache
C20_DenialIsNotAnError ==
  (\E i \in 1..Len(frames) : AccessDenied(frames[i]))
    => /\ ~out.probeThrew
       /\ out.by \in DiscoveryKinds
            => out.discovery \in {"found", "retry", "abandon"}
       /\ (out.discovery \in {"retry", "abandon"} /\ FirstHit(frames) > 0)
            => iFrameVideoData = Some(FrameSnapshot(frames[FirstHit(frames)]))

\* a discovery tick met a cross-origin frame first, went on to the frame
\* after it and scheduled its retry
C20_Witness ==
  /\ out.by \in DiscoveryKinds
  /\ out.discovery = "retry"
  /\ Len(frames) = 2
  /\ AccessDenied(frames[1])
  /\ FrameHit(frames[2])
  /\ iFrameVideoData = Some(FrameSnapshot(frames[2]))

\* C21: when a discovery tick's probe fails and a frame of the document is
\* cross-origin, an interval of discovery requests to that frame is live
\* once the tick is over
C21_CrossOriginStartsRequests ==
  (/\ out.discovery \in {"retry", "abandon"}
   /\ \E i \in 1..Len(frames) : AccessDenied(frames[i]))
    => requestIntervals # <<>>

\* C22: no interval of discovery requests is live 60 s after it was
\* started, teardown or not: the step that brings it to RequestWindow
\* cancels it
C22_RequestsCancelled ==
  \A i \in 1..Len(requestIntervals) : requestIntervals[i] < RequestWindow

\* an interval posted its last request and was cancelled
C22_Witness ==
  /\ out.by = "requestInterval"
  /\ Len(out.posted) > Len(requestIntervals)

\* C23: once discovery has succeeded, no step other than onUnload and a
\* later successful discovery changes episodeData, and every Status carries
\* the title, every persisted record the series, of the episodeData held
C23_MetadataImmutable ==
  [][(progressInterval /\ episodeData # Null)
       => /\ (out'.by # "onUnload" /\ out'.discovery # "found")
               => episodeData' = episodeData
          /\ (out'.status # Null /\ episodeData' # Null)
               => /\ out'.status[1].title = episodeData'[1].title
                  /\ \A i \in 1..Len(out'.stored) :
                       out'.stored[i].series = episodeData'[1].series]_vars

\* C24: a failed discovery tick below the bound sets exactly one retry
\* timeout, of 1000 ms while the attempt count is below 10 and of 2000 ms
\* from the tenth attempt on, and a tick run by a retry timeout never sets
\* one with a shorter delay than the one that ran it
C24_RetryBackoff ==
  [][out'.discovery = "retry"
       => /\ Count(retryTimers') =
               Count(retryTimers) + (IF out'.fired > 0 THEN 0 ELSE 1)
          /\ out'.scheduled = (IF initializeAttempts' < ShortRetryAttempts
                               THEN ShortRetryDelay ELSE LongRetryDelay)
          /\ retryTimers'[out'.scheduled] > 0
          /\ out'.fired > 0 => out'.scheduled >= out'.fired]_vars

\* C25: updateProgress calls trackProgress only when more than 5000 ms
\* have passed since it last did, whatever the number of listeners and of
\* events, and a tick of the 10 s poll neither reads nor moves the time the
\* debounce counts from
C25_DebouncedUpdates ==
  [][/\ out'.by = "timeupdate" => acceptedAge > DebounceWindow
     /\ out'.by = "poll" => updateAge' = updateAge]_vars

\* C26: every record a step persists is stored under the key made of
\* crunchyroll_progress, its series and the number of the episode the page
\* shows, so the records of one step share one key
C26_RecordKey ==
  \A i \in 1..Len(out.stored) :
    /\ out.stored[i].key =
         <<"crunchyroll_progress", out.stored[i].series,
           NumberOf(extractEpisodeInfo(page, Null).episodeNumber)>>
    /\ out.stored[i].key = out.stored[1].key

\* C27: a second onUnload right after a first one changes nothing: the
\* plugin is as the first call left it, with no poll handle, no reporter
\* handle, no episode metadata and no cached report
C27_TeardownIdempotent ==
  [][(out.by = "onUnload" /\ out'.by = "onUnload")
       => /\ UNCHANGED <<api, inFrame, progressInterval, activePolls,
                         iframeInterval, updateAge, acceptedAge, episodeData,
                         iFrameVideoData, initializeAttempts, retryWaited,
                         pageMatchTimers, retryTimers, reportTimers,
                         listeners, page, video, frames, injected,
                         requestIntervals, cacheInfo, session>>
          /\ ~progressInterval'
          /\ ~iframeInterval'
          /\ episodeData' = Null
          /\ iFrameVideoData' = Null]_vars

\* onUnload ran right after the onUnload that tore down a plugin whose
\* discovery had attached listeners to the video: the three events so far
\* are the video, the page match and the first onUnload
C27_Witness ==
  /\ out.by = "onUnload"
  /\ out.session.unloaded
  /\ listeners > 0
  /\ events = 3

\* C28: a discovery tick that finds no qualifying video in the main
\* document while an accessible frame holds one succeeds, with a handle
C28_ProbeReachesFrames ==
  (/\ out.by \in DiscoveryKinds
   /\ ~Qualifies(video)
   /\ FirstHit(frames) > 0)
    => (out.discovery = "found" /\ out.handle # Null)

\* C29: a step whose findVideoElement finds nothing leaves the cached
\* report, the scripts running in the frames, the intervals of discovery
\* requests and the frames as they were
C29_ProbeOnlyReads ==
  [][(out'.by \in TickKinds \cup DiscoveryKinds /\ out'.handle = Null)
       => /\ iFrameVideoData' = iFrameVideoData
          /\ injected' = injected
          /\ requestIntervals' = requestIntervals
          /\ frames' = frames]_vars

\* the snapshots a Status can be computed from: the cached report and the
\* video of the main document, as pairs of current time and duration
Snapshots ==
  {<<iFrameVideoData[i].currTime, iFrameVideoData[i].dur>> :
     i \in 1..Len(iFrameVideoData)}
    \cup {<<video[i].currentTime, video[i].duration>> : i \in 1..Len(video)}

\* C30: the currentTime, the duration and the finished flag of a Status
\* all come from one snapshot, the cached report or the video of the main
\* document, never the currentTime of one and the duration of the other
C30_StatusFromOneSnapshot ==
  (out.by \in TickKinds /\ out.status # Null)
    => \E s \in Snapshots :
         /\ out.status[1].currentTime = s[1]
         /\ out.status[1].duration = s[2]
         /\ out.status[1].finished = IsFinished(ProgressPercent(s[1], s[2]))

\* a Status was computed while the cached report and the video of the main
\* document differ in both times
C30_Witness ==
  /\ out.by \in TickKinds
  /\ out.status # Null
  /\ iFrameVideoData # Null
  /\ video # Null
  /\ iFrameVideoData[1].currTime # video[1].currentTime
  /\ iFrameVideoData[1].dur # video[1].duration

\* C31: initializeAttempts stays within 0..maxInitializeAttempts; it is 0
\* right after a discovery tick that finds a source or abandons, one more
\* after a tick that fails and retries, and no other step moves it
C31_AttemptsCounter ==
  [][/\ initializeAttempts' \in 0..maxInitializeAttempts
     /\ out'.discovery \in {"found", "abandon"} => initializeAttempts' = 0
     /\ out'.discovery = "retry"
          => initializeAttempts' = initializeAttempts + 1
     /\ out'.by \notin DiscoveryKinds
          => initializeAttempts' = initializeAttempts]_vars

\* a tick abandoned at the bound while two retry chains were counting on
\* the one counter: a timeout of the other chain is still pending
C31_Witness ==
  /\ out.discovery = "abandon"
  /\ initializeAttempts = 0
  /\ Count(retryTimers) > 0

\* the lookup has a source to return: a usable cached report or a
\* qualifying video in the main document
SourceResolvable == CacheUsable(iFrameVideoData) \/ Qualifies(video)

\* a discovery tick of a page match for a watch page is still to run
DiscoveryPending ==
  \/ \E u \in Hrefs : Includes(u, "watch") /\ pageMatchTimers[u] > 0
  \/ Count(retryTimers) > 0

\* a discovery tick has just succeeded
TrackingStarted ==
  /\ out.discovery = "found"
  /\ episodeData # Null
  /\ initializeAttempts = 0
  /\ progressInterval
  /\ activePolls > 0
  /\ out.scheduled = 0

\* C32: when a source is resolvable while a discovery tick is pending, then
\* unless the source goes away a discovery tick succeeds: the metadata is
\* extracted, the counter is 0, the poll runs and no retry is set
C32_DiscoveryLeadsToTracking ==
  (SourceResolvable /\ DiscoveryPending)
    ~> (TrackingStarted \/ ~SourceResolvable)

\* a retry tick succeeded: the source became resolvable after a failed tick
C32_Witness ==
  /\ TrackingStarted
  /\ out.fired > 0

\* C33: a call of trackProgress that resolves no source (the url is no
\* watch page, or the lookup finds nothing) or resolves one without a known
\* duration returns no Status, and a call that returns no Status has
\* called neither storage.set nor runtime.sendMessage
C33_NothingWithoutStatus ==
  out.by \in TickKinds
    => /\ (out.handle = Null \/ ~JsTruthy(out.handle[1].duration))
            => (out.status = Null /\ out.stored = <<>> /\ out.sent = <<>>)
       /\ (out.status = Null /\ ~out.threw)
            => (out.stored = <<>> /\ out.sent = <<>>)

\* a tick resolved a source whose duration is unknown and emitted nothing
C33_Witness ==
  /\ out.by \in TickKinds
  /\ out.handle # Null
  /\ ~JsTruthy(out.handle[1].duration)
  /\ out.status = Null
  /\ out.sent = <<>>

\* C34: at most one interval of startProgressTracking is live, and it is
\* the one whose handle the field progressInterval holds
C34_OnePoll ==
  /\ activePolls <= 1
  /\ progressInterval <=> activePolls = 1

\* discovery has just succeeded for the second time on the same video
C34_Witness ==
  /\ out.discovery = "found"
  /\ listeners >= 2
  /\ activePolls = 1

\* C35: a valid report is cached; it sets one 100 ms timeout when the
\* attempts counter is above 0 and none when it is 0, and touches nothing
\* else of discovery.  The timeout, when it fires, runs a discovery attempt
\* if no episode metadata is held and does nothing otherwise
C35_ReportTriggeredRetry ==
  [][/\ \A m \in Messages :
          (AcceptsReport(m) /\ messageListener(m))
            => /\ iFrameVideoData' = Some(m.data)
               /\ reportTimers' =
                    reportTimers + (IF initializeAttempts > 0 THEN 1 ELSE 0)
               /\ UNCHANGED <<initializeAttempts, retryTimers,
                              pageMatchTimers, episodeData, progressInterval,
                              activePolls, listeners>>
     /\ reportTimers' < reportTimers
          => IF episodeData = Null
             THEN out'.by = "report" /\ reportTimers' = reportTimers - 1
             ELSE /\ out'.by # "report"
                  /\ UNCHANGED <<initializeAttempts, retryTimers, episodeData,
                                 progressInterval, activePolls,
                                 listeners>>]_vars

\* the attempt a report triggered ran and found the reported source
C35_Witness ==
  /\ out.by = "report"
  /\ out.discovery = "found"
  /\ out.handle[1].origin = "remote"

\* what discovery and tracking hold
DiscoveryState ==
  <<initializeAttempts, retryTimers, reportTimers, episodeData,
    progressInterval, activePolls, listeners, iFrameVideoData>>

\* C36: onPageMatch itself only sets its 2 s timeout; the timeout of a
\* page match whose url is no watch page runs no discovery tick, sets no
\* timer and starts no tracking, and a discovery tick run by a page match
\* comes from the timeout of one for a watch page
C36_PageMatchGating ==
  [][(pageMatchTimers' # pageMatchTimers \/ out'.by = "pageMatch")
       => /\ (\E u \in Hrefs : pageMatchTimers'[u] > pageMatchTimers[u])
               => UNCHANGED DiscoveryState
          /\ (\E u \in Hrefs : /\ ~Includes(u, "watch")
                                /\ pageMatchTimers'[u] < pageMatchTimers[u])
               => (out'.by \notin DiscoveryKinds /\ UNCHANGED DiscoveryState)
          /\ out'.by = "pageMatch"
               => \E u \in Hrefs :
                    /\ Includes(u, "watch")
                    /\ pageMatchTimers'[u] = pageMatchTimers[u] - 1]_vars

\* the 2 s timeout of a page match for a page that is no watch page has
\* fired, and nothing of discovery has started
C36_Witness ==
  /\ out.by = "pageMatchSkipped"
  /\ initializeAttempts = 0
  /\ Count(retryTimers) = 0
  /\ ~progressInterval

\* C37: the reporter interval runs only inside a frame; once the plugin is
\* loaded, an interval that is not running is never started, and onUnload
\* stops it; every report it posts carries iFrameVideo = true and a
\* duration that is a number above 0
C37_InFrameReporter ==
  [][/\ iframeInterval' => inFrame'
     /\ out'.by = "onUnload" => ~iframeInterval'
     /\ (api /\ ~iframeInterval) => ~iframeInterval'
     /\ out'.by = "reporter"
          => /\ iframeInterval
             /\ out'.posted # <<>>
             /\ \A i \in 1..Len(out'.posted) :
                  /\ out'.posted[i].iFrameVideoData.iFrameVideo
                  /\ ~IsNaN(out'.posted[i].iFrameVideoData.dur)
                  /\ out'.posted[i].iFrameVideoData.dur > 0]_vars

\* the reporter has just posted a report to the parent window
C37_Witness ==
  /\ out.by = "reporter"
  /\ inFrame
  /\ Len(out.posted) = 1

\* C38: when no source and no report ever comes, the one discovery run of
\* a page match is abandoned when the delays it has waited between its
\* first and its last tick add up to 60 000 ms
C38_RetryWindow ==
  (/\ out.discovery = "abandon"
   /\ events = 1
   /\ video = Null
   /\ iFrameVideoData = Null)
    => out.waited = 60000

====
